---- MODULE Spec2Model ----
(***************************************************************************)
(* ChatVerse: the conversation-state layer of the three App components of  *)
(* the repository, as one state machine.                                   *)
(*                                                                         *)
(*   variant "A"  src/unnamed/part_000 lines 1-516: signed-in users,       *)
(*                streamed chat, the /imagine command, history kept by     *)
(*                effects (history sync effect, save effect).              *)
(*   variant "B"  src/unnamed/part_000 lines 518-743: no users, streamed   *)
(*                chat, history kept by effects under key chatHistory.     *)
(*   variant "C"  src/unnamed/part_001: signed-in users, four generation   *)
(*                modes, single-shot gateway calls, saveChatHistory.       *)
(*                                                                         *)
(* One action is one event handler (or one resumption of an async handler  *)
(* after an await) together with the React effects its state updates       *)
(* trigger.  Text is a sequence of one-character strings.                  *)
(***************************************************************************)
EXTENDS Integers, Sequences, FiniteSets, TLC

VARIABLES
  variant,        \* which App component is mounted
  apiKey,         \* process.env.API_KEY is set
  currentUser,    \* useState currentUser (None = null)
  messages,       \* useState messages: the displayed list
  chat,           \* useState chat: TRUE when a chat handle exists
  isLoading,      \* useState isLoading
  currentChatId,  \* useState currentChatId (None = null)
  chatHistory,    \* useState chatHistory: the session collection
  storage,        \* localStorage
  turns,          \* activations of the async submit handlers, in submit order
  clock,          \* the last value read from Date.now()
  nextUuid,       \* crypto.randomUUID(): next unused identifier
  crashed,        \* an effect threw: React unmounted the tree
  lastOp,         \* the handler that ran last, and whether it started a turn
  saveLog,        \* what the last saveChatHistory call did to localStorage
  writeFailed,    \* some localStorage.setItem has thrown
  alerted,        \* the last handler called window.alert
  signIns         \* number of handleSignIn calls so far

vars ==
  <<variant, apiKey, currentUser, messages, chat, isLoading, currentChatId,
    chatHistory, storage, turns, clock, nextUuid, crashed, lastOp, saveLog,
    writeFailed, alerted, signIns>>

(***************************************************************************)
(* Bounds of the model.                                                    *)
(***************************************************************************)
MaxTurns ==
  2
MaxChunks ==
  2
MaxClock ==
  4
MaxSignIns ==
  1
Quota ==
  7
MaxUuid ==
  5

(***************************************************************************)
(* Program constants.                                                      *)
(***************************************************************************)
TitleLimit ==
  30
ImagineCut ==
  8

\* null, for currentUser
None ==
  "none"
\* null, for currentChatId; identifiers are positive
NoChat ==
  0
\* the first value of Date.now() after mount
FirstNow ==
  3
Users ==
  {"u1", "u2"}
NoImage ==
  "noimage"

(***************************************************************************)
(* Strings of the source, as character sequences.                          *)
(***************************************************************************)
ErrorPrefix ==
  <<"E","r","r","o","r",":"," ">>
UnknownError ==
  <<"A","n"," ","u","n","k","n","o","w","n"," ","e","r","r","o","r"," ","o","c","c","u","r","r","e","d",".">>
UnknownImageError ==
  <<"A","n"," ","u","n","k","n","o","w","n"," ","e","r","r","o","r"," ","o","c","c","u","r","r","e","d"," ","d","u","r","i","n","g"," ","i","m","a","g","e"," ","g","e","n","e","r","a","t","i","o","n",".">>
ApiKeyNotConfigured ==
  <<"A","P","I"," ","K","e","y"," ","i","s"," ","n","o","t"," ","c","o","n","f","i","g","u","r","e","d",".">>
NoImageDataReceived ==
  <<"I","m","a","g","e"," ","g","e","n","e","r","a","t","i","o","n"," ","f","a","i","l","e","d","."," ","N","o"," ","i","m","a","g","e"," ","d","a","t","a"," ","r","e","c","e","i","v","e","d"," ","f","r","o","m"," ","t","h","e"," ","A","P","I",".">>
DescribeThisImage ==
  <<"D","e","s","c","r","i","b","e"," ","t","h","i","s"," ","i","m","a","g","e",".">>
ImagineCommand ==
  <<"/","i","m","a","g","i","n","e"," ">>
NewChatTitle ==
  <<"N","e","w"," ","C","h","a","t">>
UndefinedTitle ==
  <<"u","n","d","e","f","i","n","e","d">>
Ellipsis ==
  <<".",".",".">>
SorryFallback ==
  <<"S","o","r","r","y",","," ","I"," ","e","n","c","o","u","n","t","e","r","e","d"," ","a","n"," ","e","r","r","o","r","."," ","P","l","e","a","s","e"," ","t","r","y"," ","a","g","a","i","n",".">>
ImageFallback ==
  <<"F","a","i","l","e","d"," ","t","o"," ","g","e","n","e","r","a","t","e"," ","i","m","a","g","e","."," ","P","l","e","a","s","e"," ","t","r","y"," ","a","g","a","i","n",".">>
AppFallback ==
  <<"F","a","i","l","e","d"," ","t","o"," ","g","e","n","e","r","a","t","e"," ","t","h","e"," ","a","p","p","."," ","P","l","e","a","s","e"," ","t","r","y"," ","a","g","a","i","n",".">>
GenerateImagePrefix ==
  <<"G","e","n","e","r","a","t","e"," ","i","m","a","g","e",":"," ">>
EditImagePrefix ==
  <<"E","d","i","t"," ","i","m","a","g","e",":"," ">>
Generate3DPrefix ==
  <<"G","e","n","e","r","a","t","e"," ","3","D"," ","M","o","d","e","l",":"," ">>
Convert3DPrefix ==
  <<"C","o","n","v","e","r","t"," ","i","m","a","g","e"," ","t","o"," ","3","D",":"," ">>
CreateAppPrefix ==
  <<"C","r","e","a","t","e"," ","A","p","p",":"," ">>
WelcomeChatPrompt ==
  <<"H","e","l","p"," ","m","e"," ","w","r","i","t","e"," ","a"," ","P","y","t","h","o","n"," ","s","c","r","i","p","t"," ","t","o"," ","a","n","a","l","y","z","e"," ","C","S","V"," ","f","i","l","e","s",".">>
WelcomeImagePrompt ==
  <<"A"," ","f","u","t","u","r","i","s","t","i","c"," ","c","i","t","y"," ","f","l","o","a","t","i","n","g"," ","i","n"," ","t","h","e"," ","c","l","o","u","d","s",","," ","c","y","b","e","r","p","u","n","k"," ","s","t","y","l","e",".">>
Welcome3DPrompt ==
  <<"A"," ","l","o","w","-","p","o","l","y"," ","s","p","i","n","n","i","n","g"," ","g","l","o","b","e"," ","w","i","t","h"," ","g","l","o","w","i","n","g"," ","c","i","t","i","e","s",".">>
WelcomeAppPrompt ==
  <<"A"," ","P","o","m","o","d","o","r","o"," ","t","i","m","e","r"," ","w","i","t","h"," ","a"," ","t","o","d","o"," ","l","i","s","t",".">>
HereImagePrefix ==
  <<"H","e","r","e"," ","i","s"," ","y","o","u","r"," ","i","m","a","g","e"," ","f","o","r"," ","\"">>
HereEditedImagePrefix ==
  <<"H","e","r","e"," ","i","s"," ","y","o","u","r"," ","e","d","i","t","e","d"," ","i","m","a","g","e"," ","f","o","r"," ","\"">>
Quote ==
  <<"\"">>
\* the character ` (a string of TLA+ cannot hold it)
BT ==
  "backtick"
Here3DPrefix ==
  <<"H","e","r","e"," ","i","s"," ","y","o","u","r"," ","3","D"," ","s","c","e","n","e"," ","b","a","s","e","d"," ","o","n"," ","\"">>
Here3DMiddle ==
  <<"\"","."," ","U","s","e"," ","t","h","e"," ","G","U","I"," ","t","o"," ","a","d","j","u","s","t"," ","l","i","g","h","t","i","n","g",","," ","b","a","c","k","g","r","o","u","n","d",","," ","a","n","d"," ","c","a","m","e","r","a"," ","s","e","t","t","i","n","g","s","."," ","Y","o","u"," ","c","a","n"," ","a","l","s","o"," ","z","o","o","m"," ","(","s","c","r","o","l","l",")",","," ","p","a","n"," ","(","r","i","g","h","t","-","c","l","i","c","k",")",","," ","a","n","d"," ","r","o","t","a","t","e"," ","(","l","e","f","t","-","c","l","i","c","k",")"," ","t","h","e"," ","v","i","e","w",".","\n","\n",BT,BT,BT,"h","t","m","l","\n">>
HereAppPrefix ==
  <<"H","e","r","e"," ","i","s"," ","y","o","u","r"," ","a","p","p"," ","b","a","s","e","d"," ","o","n"," ","\"">>
HereAppMiddle ==
  <<"\"",".","\n","\n",BT,BT,BT,"h","t","m","l","\n">>
FenceEnd ==
  <<"\n",BT,BT,BT>>
FenceHtml ==
  <<BT,BT,BT,"h","t","m","l">>
Fence ==
  <<BT,BT,BT>>

(***************************************************************************)
(* String functions of JavaScript used by the handlers.                    *)
(***************************************************************************)
Min(a, b) ==
  IF a < b THEN a ELSE b

UpperChars ==
  <<"A","B","C","D","E","F","G","H","I","J","K","L","M",
    "N","O","P","Q","R","S","T","U","V","W","X","Y","Z">>
LowerChars ==
  <<"a","b","c","d","e","f","g","h","i","j","k","l","m",
    "n","o","p","q","r","s","t","u","v","w","x","y","z">>

IsSpace(c) ==
  c \in {" ", "\n", "\t"}

RECURSIVE TrimStart(_)
TrimStart(s) ==
  IF s # <<>> /\ IsSpace(Head(s)) THEN TrimStart(Tail(s)) ELSE s

RECURSIVE TrimEnd(_)
TrimEnd(s) ==
  IF s # <<>> /\ IsSpace(s[Len(s)]) THEN TrimEnd(SubSeq(s, 1, Len(s) - 1)) ELSE s

\* String.prototype.trim
Trim(s) ==
  TrimEnd(TrimStart(s))

LowerChar(c) ==
  IF \E i \in DOMAIN UpperChars : UpperChars[i] = c
  THEN LowerChars[CHOOSE i \in DOMAIN UpperChars : UpperChars[i] = c]
  ELSE c

\* String.prototype.toLowerCase
ToLowerCase(s) ==
  [i \in DOMAIN s |-> LowerChar(s[i])]

\* String.prototype.startsWith
StartsWith(s, p) ==
  Len(s) >= Len(p) /\ SubSeq(s, 1, Len(p)) = p

\* String.prototype.substring(from): the characters from index `from` on
Substring(s, from) ==
  SubSeq(s, from + 1, Len(s))

\* String.prototype.slice(0, n) and substring(0, n)
Slice(s, n) ==
  SubSeq(s, 1, Min(n, Len(s)))

(***************************************************************************)
(* Messages and sessions (src/types.ts).  The field turn is not in the     *)
(* source: it records which submission created the message (0 for a        *)
(* message found in storage at mount).                                     *)
(***************************************************************************)
Message(id, role, content, image, turn) ==
  [id |-> id, role |-> role, content |-> content, image |-> image, turn |-> turn]

ChatHistoryItem(id, title, msgs) ==
  [id |-> id, title |-> title, messages |-> msgs]

Ids(hist) ==
  {hist[i].id : i \in DOMAIN hist}

\* Array.prototype.findIndex on the session collection; 0 stands for -1
FindIndex(hist, id) ==
  IF \E i \in DOMAIN hist : hist[i].id = id
  THEN CHOOSE i \in DOMAIN hist : hist[i].id = id /\ \A j \in 1..(i - 1) : hist[j].id # id
  ELSE 0

\* messages.find(m => m.role === 'user'), as an index; 0 when there is none
FirstUserIndex(msgs) ==
  IF \E i \in DOMAIN msgs : msgs[i].role = "user"
  THEN CHOOSE i \in DOMAIN msgs :
         msgs[i].role = "user" /\ \A j \in 1..(i - 1) : msgs[j].role # "user"
  ELSE 0

\* the title of a new session in the history sync effect
EffectTitle(msgs) ==
  LET i == FirstUserIndex(msgs) IN
  IF i = 0 THEN NewChatTitle
  ELSE Slice(msgs[i].content, TitleLimit)
         \o (IF Len(msgs[i].content) > TitleLimit THEN Ellipsis ELSE <<>>)

\* the title computed by saveChatHistory:
\*   updatedMessages[0]?.content.slice(0, 30) + (length > 30 ? '...' : '') || 'New Chat'
SaveTitle(updatedMessages) ==
  LET t == IF updatedMessages = <<>> THEN UndefinedTitle
           ELSE Slice(updatedMessages[1].content, TitleLimit)
                  \o (IF Len(updatedMessages[1].content) > TitleLimit
                      THEN Ellipsis ELSE <<>>)
  IN IF t = <<>> THEN NewChatTitle ELSE t

(***************************************************************************)
(* localStorage.  A stored value is absent, a user name, the JSON text of  *)
(* a session collection, or text that JSON.parse rejects.  setItem throws  *)
(* QuotaExceededError when the stored collections would exceed Quota,      *)
(* counted in records (one per session plus one per message).              *)
(***************************************************************************)
Absent ==
  [kind |-> "absent", val |-> <<>>]
Corrupt ==
  [kind |-> "corrupt", val |-> <<>>]
UserName(u) ==
  [kind |-> "user", val |-> u]
\* JSON.stringify of a session collection
Stringify(hist) ==
  [kind |-> "json", val |-> hist]
\* JSON.parse succeeds
Parses(v) ==
  v.kind = "json"
\* JSON.parse
Parse(v) ==
  v.val

UserKey ==
  <<"currentUser">>
NoUserHistoryKey ==
  <<"chatHistory">>
HistoryKey(u) ==
  <<"chatHistory_", u>>
Keys ==
  {UserKey, NoUserHistoryKey} \cup {HistoryKey(u) : u \in Users}

RECURSIVE HistorySize(_)
HistorySize(hist) ==
  IF hist = <<>> THEN 0
  ELSE 1 + Len(hist[1].messages) + HistorySize(Tail(hist))

ValueSize(v) ==
  IF v.kind = "json" THEN HistorySize(v.val) ELSE 0

RECURSIVE UsedOver(_, _)
UsedOver(st, ks) ==
  IF ks = {} THEN 0
  ELSE LET k == CHOOSE x \in ks : TRUE IN ValueSize(st[k]) + UsedOver(st, ks \ {k})

\* localStorage.setItem(k, v) does not throw
Fits(st, k, v) ==
  UsedOver([st EXCEPT ![k] = v], Keys) <= Quota

SetItem(st, k, v) ==
  [st EXCEPT ![k] = v]

RemoveItem(st, k) ==
  [st EXCEPT ![k] = Absent]

(***************************************************************************)
(* The session store.                                                      *)
(***************************************************************************)
\* a sync effect that never looks for the session: it appends a record each time
SyncHistoryAppend(prevHistory, chatId, msgs) ==
  IF chatId # NoChat /\ Len(msgs) > 0
  THEN Append(prevHistory, ChatHistoryItem(chatId, EffectTitle(msgs), msgs))
  ELSE prevHistory

\* a sync effect that moves the session it updates to the end of the collection
SyncHistoryMoveToEnd(prevHistory, chatId, msgs) ==
  IF chatId # NoChat /\ Len(msgs) > 0
  THEN LET chatIndex == FindIndex(prevHistory, chatId) IN
       IF chatIndex # 0
       THEN Append(SelectSeq(prevHistory, LAMBDA c : c.id # chatId),
                   [prevHistory[chatIndex] EXCEPT !.messages = msgs])
       ELSE Append(prevHistory, ChatHistoryItem(chatId, EffectTitle(msgs), msgs))
  ELSE prevHistory

\* variants A and B: the history sync effect (deps [messages, currentChatId])
SyncHistory(prevHistory, chatId, msgs) ==
  IF chatId # NoChat /\ Len(msgs) > 0
  THEN LET chatIndex == FindIndex(prevHistory, chatId) IN
       IF chatIndex # 0
       THEN [prevHistory EXCEPT ![chatIndex].messages = msgs]
       ELSE Append(prevHistory, ChatHistoryItem(chatId, EffectTitle(msgs), msgs))
  ELSE prevHistory

\* variant A: the save effect (deps [chatHistory, currentUser])
SaveEffect(st, user, hist) ==
  IF user # None /\ Len(hist) > 0
  THEN IF Fits(st, HistoryKey(user), Stringify(hist))
       THEN [storage |-> SetItem(st, HistoryKey(user), Stringify(hist)), failed |-> FALSE]
       ELSE [storage |-> st, failed |-> TRUE]
  ELSE IF user # None
       THEN [storage |-> RemoveItem(st, HistoryKey(user)), failed |-> FALSE]
       ELSE [storage |-> st, failed |-> FALSE]

\* variant B: the save effect (deps [chatHistory]); setItem is not guarded
SaveEffectNoUser(st, hist) ==
  IF Len(hist) > 0
  THEN IF Fits(st, NoUserHistoryKey, Stringify(hist))
       THEN [storage |-> SetItem(st, NoUserHistoryKey, Stringify(hist)), failed |-> FALSE]
       ELSE [storage |-> st, failed |-> TRUE]
  ELSE [storage |-> st, failed |-> FALSE]

\* saveLog (not in the source) records the last saveChatHistory call: its chat
\* id, the key written, the collection after the upsert and before any
\* eviction, the number of setItem calls and of those that threw, and the ids
\* evicted
NoSave ==
  [called |-> FALSE, id |-> NoChat, key |-> <<>>, attempts |-> 0, failures |-> 0,
   evicted |-> <<>>, before |-> <<>>]

\* saveChatHistory that moves an updated session to the end of the collection
saveChatHistoryMoveToEnd(st, prevHistory, user, chatId, updatedMessages) ==
  IF user = None
  THEN [history |-> prevHistory, storage |-> st, log |-> NoSave]
  ELSE
    LET title == SaveTitle(updatedMessages)
        others == SelectSeq(prevHistory, LAMBDA item : item.id # chatId)
        newHistory == Append(others, ChatHistoryItem(chatId, title, updatedMessages))
        key == HistoryKey(user)
        log == [called |-> TRUE, id |-> chatId, key |-> key, attempts |-> 1, failures |-> 0,
                evicted |-> <<>>, before |-> newHistory]
    IN
    IF Fits(st, key, Stringify(newHistory))
    THEN [history |-> newHistory, storage |-> SetItem(st, key, Stringify(newHistory)),
          log |-> log]
    ELSE IF Len(newHistory) > 1
         THEN LET shifted == Tail(newHistory) IN
              IF Fits(st, key, Stringify(shifted))
              THEN [history |-> shifted,
                    storage |-> SetItem(st, key, Stringify(shifted)),
                    log |-> [log EXCEPT !.attempts = 2, !.failures = 1,
                                        !.evicted = <<newHistory[1].id>>]]
              ELSE [history |-> shifted, storage |-> st,
                    log |-> [log EXCEPT !.attempts = 2, !.failures = 2,
                                        !.evicted = <<newHistory[1].id>>]]
         ELSE [history |-> newHistory, storage |-> st,
               log |-> [log EXCEPT !.failures = 1]]

\* saveChatHistory with pop() in place of shift(): the newest session is
\* evicted
saveChatHistoryPop(st, prevHistory, user, chatId, updatedMessages) ==
  IF user = None
  THEN [history |-> prevHistory, storage |-> st, log |-> NoSave]
  ELSE
    LET title == SaveTitle(updatedMessages)
        existingIndex == FindIndex(prevHistory, chatId)
        newHistory ==
          IF existingIndex # 0
          THEN [prevHistory EXCEPT ![existingIndex].messages = updatedMessages,
                                   ![existingIndex].title = title]
          ELSE Append(prevHistory, ChatHistoryItem(chatId, title, updatedMessages))
        key == HistoryKey(user)
        log == [called |-> TRUE, id |-> chatId, key |-> key, attempts |-> 1, failures |-> 0,
                evicted |-> <<>>, before |-> newHistory]
    IN
    IF Fits(st, key, Stringify(newHistory))
    THEN [history |-> newHistory, storage |-> SetItem(st, key, Stringify(newHistory)),
          log |-> log]
    ELSE IF Len(newHistory) > 1
         THEN LET popped == SubSeq(newHistory, 1, Len(newHistory) - 1) IN
              IF Fits(st, key, Stringify(popped))
              THEN [history |-> popped,
                    storage |-> SetItem(st, key, Stringify(popped)),
                    log |-> [log EXCEPT !.attempts = 2, !.failures = 1,
                                        !.evicted = <<newHistory[Len(newHistory)].id>>]]
              ELSE [history |-> popped, storage |-> st,
                    log |-> [log EXCEPT !.attempts = 2, !.failures = 2,
                                        !.evicted = <<newHistory[Len(newHistory)].id>>]]
         ELSE [history |-> newHistory, storage |-> st,
               log |-> [log EXCEPT !.failures = 1]]

\* variant C: saveChatHistory, called with the currentUser of the render
\* whose handler calls it
saveChatHistory(st, prevHistory, user, chatId, updatedMessages) ==
  IF user = None
  THEN [history |-> prevHistory, storage |-> st, log |-> NoSave]
  ELSE
    LET title == SaveTitle(updatedMessages)
        existingIndex == FindIndex(prevHistory, chatId)
        newHistory ==
          IF existingIndex # 0
          THEN [prevHistory EXCEPT ![existingIndex].messages = updatedMessages,
                                   ![existingIndex].title = title]
          ELSE Append(prevHistory, ChatHistoryItem(chatId, title, updatedMessages))
        key == HistoryKey(user)
        log == [called |-> TRUE, id |-> chatId, key |-> key, attempts |-> 1, failures |-> 0,
                evicted |-> <<>>, before |-> newHistory]
    IN
    IF Fits(st, key, Stringify(newHistory))
    THEN [history |-> newHistory, storage |-> SetItem(st, key, Stringify(newHistory)),
          log |-> log]
    ELSE IF Len(newHistory) > 1
         THEN LET shifted == Tail(newHistory) IN
              IF Fits(st, key, Stringify(shifted))
              THEN [history |-> shifted,
                    storage |-> SetItem(st, key, Stringify(shifted)),
                    log |-> [log EXCEPT !.attempts = 2, !.failures = 1,
                                        !.evicted = <<newHistory[1].id>>]]
              ELSE [history |-> shifted, storage |-> st,
                    log |-> [log EXCEPT !.attempts = 2, !.failures = 2,
                                        !.evicted = <<newHistory[1].id>>]]
         ELSE [history |-> newHistory, storage |-> st,
               log |-> [log EXCEPT !.failures = 1]]

(***************************************************************************)
(* Loading the history of a user (the user-change effect) and of the       *)
(* no-user variant (the load effect).                                      *)
(***************************************************************************)
\* variant A: parse failure empties the collection and removes the entry
LoadHistoryA(st, user, prevHistory) ==
  LET saved == st[HistoryKey(user)] IN
  IF saved.kind = "absent" THEN [history |-> <<>>, storage |-> st]
  ELSE IF Parses(saved) THEN [history |-> Parse(saved), storage |-> st]
  ELSE [history |-> <<>>, storage |-> RemoveItem(st, HistoryKey(user))]

\* variant C: parse failure is logged only
LoadHistoryC(st, user, prevHistory) ==
  LET saved == st[HistoryKey(user)] IN
  IF saved.kind = "absent" THEN [history |-> <<>>, storage |-> st]
  ELSE IF Parses(saved) THEN [history |-> Parse(saved), storage |-> st]
  ELSE [history |-> prevHistory, storage |-> st]

\* variant B: parse failure removes the entry
LoadHistoryB(st, prevHistory) ==
  LET saved == st[NoUserHistoryKey] IN
  IF saved.kind = "absent" THEN [history |-> prevHistory, storage |-> st]
  ELSE IF Parses(saved) THEN [history |-> Parse(saved), storage |-> st]
  ELSE [history |-> prevHistory, storage |-> RemoveItem(st, NoUserHistoryKey)]

(***************************************************************************)
(* Inputs: what the user types and attaches, what the gateway returns.     *)
(***************************************************************************)
Hi ==
  <<"h","i">>
Blank ==
  <<" ">>
ImagineCat ==
  <<"/","i","m","a","g","i","n","e"," ","c">>
\* variants A and B: what is in the ChatInput when it is submitted
Input(value, image) ==
  [value |-> value, image |-> image]
SpaceImagineCat ==
  <<" ">> \o ImagineCat
Inputs ==
  {Input(<<>>, NoImage), Input(Blank, NoImage), Input(Hi, NoImage),
   Input(<<>>, "img1"), Input(ImagineCat, NoImage), Input(SpaceImagineCat, NoImage)}
\* variant C: the same, with the mode selected
InputC(value, image, mode) ==
  [value |-> value, image |-> image, mode |-> mode]
InputsC ==
  {InputC(<<>>, NoImage, "chat"), InputC(Hi, "img1", "chat"),
   InputC(<<>>, NoImage, "image"),
   InputC(<<>>, NoImage, "3d"),
   InputC(Blank, NoImage, "app")}
\* the texts of the chunks of a stream, in arrival order (repeating)
ChunkTexts ==
  <<<<"H","e","l">>, <<"l","o",","," ">>, <<"w","o","r","l","d">>>>
ChunkAt(k) ==
  ChunkTexts[((k - 1) % Len(ChunkTexts)) + 1]
\* what a failing gateway call throws: an Error with a message, or a value
\* that is not an Error
NotAnError ==
  <<"not an Error">>
Thrown ==
  {<<"n","e","t">>, NotAnError}
\* response.candidates[0].content.parts of a single-shot image call
TextPart ==
  [inlineData |-> NoImage]
InlinePart(data) ==
  [inlineData |-> data]
PartLists ==
  {<<TextPart>>, <<TextPart, InlinePart("gen2"), InlinePart("gen1")>>}
\* result.text of a single-shot text call
ResultTexts ==
  {<<"o","k">>}

(***************************************************************************)
(* A session as found in localStorage at mount, left there by an earlier   *)
(* run of the same variant: one settled turn "hi" / "ok".                  *)
(***************************************************************************)
SampleUser ==
  "u1"
SampleHistory(v) ==
  IF v = "C"
  THEN LET msgs == <<Message(1, "user", Hi, NoImage, 0),
                     Message(2, "model", <<"o","k">>, NoImage, 0)>>
       IN <<ChatHistoryItem(1, SaveTitle(msgs), msgs)>>
  ELSE LET msgs == <<Message(101, "user", Hi, NoImage, 0),
                     Message(102, "model", <<"o","k">>, NoImage, 0)>>
       IN <<ChatHistoryItem(100, EffectTitle(msgs), msgs)>>

EmptyStorage ==
  [k \in Keys |-> Absent]

\* localStorage when the page is opened
InitialStorages(v) ==
  LET key == IF v = "B" THEN NoUserHistoryKey ELSE HistoryKey(SampleUser) IN
  {EmptyStorage} \cup
  {[[EmptyStorage EXCEPT ![key] = h]
      EXCEPT ![UserKey] = IF v = "B" THEN Absent ELSE UserName(SampleUser)] :
     h \in {Corrupt, Stringify(SampleHistory(v))}}

(***************************************************************************)
(* Mount: the effects of the first render.                                 *)
(***************************************************************************)
\* the in-memory collection and localStorage once the effects that follow a
\* change of currentUser to `user` have run
UserChange(v, st, user, prevHistory) ==
  IF v = "A"
  THEN LET l == LoadHistoryA(st, user, prevHistory)
           \* the save effect of the render that still has the old, empty
           \* collection, then the save effect of the render with the loaded one
           e == SaveEffect(l.storage, user, <<>>)
           s == SaveEffect(e.storage, user, l.history)
       IN [history |-> l.history, storage |-> s.storage, failed |-> s.failed,
           \* localStorage after each effect, in the order they run
           trail |-> <<l.storage, e.storage, s.storage>>]
  ELSE LET l == LoadHistoryC(st, user, prevHistory)
       IN [history |-> l.history, storage |-> l.storage, failed |-> FALSE,
           trail |-> <<l.storage>>]

Mounted(v, st) ==
  IF v = "B"
  THEN LET l == LoadHistoryB(st, <<>>)
           s == SaveEffectNoUser(l.storage, l.history)
       IN [user |-> None, history |-> l.history, storage |-> s.storage]
  ELSE IF st[UserKey].kind = "user"
       THEN LET r == UserChange(v, st, st[UserKey].val, <<>>)
            IN [user |-> st[UserKey].val, history |-> r.history, storage |-> r.storage]
       ELSE [user |-> None, history |-> <<>>, storage |-> st]

Init ==
  /\ variant \in {"A", "B", "C"}
  /\ apiKey \in BOOLEAN
  /\ \E st \in InitialStorages(variant) :
       /\ (~apiKey => st = EmptyStorage)
       /\ LET m == Mounted(variant, st) IN
          /\ currentUser = m.user
          /\ chatHistory = m.history
          /\ storage = m.storage
          \* initializeChat runs at mount in B, and in the user-change effect
          /\ chat = (apiKey /\ (variant = "B" \/ m.user # None))
          /\ alerted = (~apiKey /\ (variant = "B" \/ (variant = "A" /\ m.user # None)))
  /\ messages = <<>>
  /\ isLoading = FALSE
  /\ currentChatId = NoChat
  /\ turns = <<>>
  /\ clock = FirstNow
  /\ nextUuid = 1
  /\ crashed = FALSE
  /\ lastOp = "other"
  /\ saveLog = NoSave
  /\ writeFailed = FALSE
  /\ signIns = 0

(***************************************************************************)
(* Turns: one record per started submission.  status is the position of    *)
(* the async handler: "inflight" while it awaits the gateway, then         *)
(* "settled" or "errored".  user, chatId and modelMsgId are the values the *)
(* handler's closure holds.  switched (not in the source) records that the *)
(* view was replaced (New Chat, Load Chat, sign-in, sign-out) during the   *)
(* turn.                                                                   *)
(***************************************************************************)
\* the gateway method a handler awaits: chat.sendMessageStream in part_000's
\* handleSendMessage; in part_001's, chat.sendMessage, or ai.models.generateContent
\* when an image is attached; ai.models.generateContent in every other handler
GatewayCall(kind, image) ==
  IF kind # "chat" THEN "generateContent"
  ELSE IF variant # "C" THEN "sendMessageStream"
  ELSE IF image # NoImage THEN "generateContent"
  ELSE "sendMessage"

NewTurn(kind, user, chatId, modelMsgId, prompt, image, status) ==
  [status |-> status, kind |-> kind, user |-> user, chatId |-> chatId,
   modelMsgId |-> modelMsgId, prompt |-> prompt, image |-> image,
   call |-> GatewayCall(kind, image),
   text |-> <<>>, nchunks |-> 0, switched |-> FALSE]

InFlight ==
  {t \in DOMAIN turns : turns[t].status = "inflight"}

MarkSwitched(ts) ==
  [t \in DOMAIN ts |->
     IF ts[t].status = "inflight" THEN [ts[t] EXCEPT !.switched = TRUE] ELSE ts[t]]

\* prev.map(msg => msg.id === id ? { ...msg, content } : msg)
ReplaceContent(msgs, id, content) ==
  [i \in DOMAIN msgs |->
     IF msgs[i].id = id THEN [msgs[i] EXCEPT !.content = content] ELSE msgs[i]]

\* prev.map(msg => msg.id === id ? { ...msg, content: '', image } : msg)
ReplaceImage(msgs, id, image) ==
  [i \in DOMAIN msgs |->
     IF msgs[i].id = id
     THEN [msgs[i] EXCEPT !.content = <<>>, !.image = image] ELSE msgs[i]]

\* a scan that keeps the last part that carries inline data
RECURSIVE LastInlineData(_)
LastInlineData(parts) ==
  IF parts = <<>> THEN NoImage
  ELSE IF parts[Len(parts)].inlineData # NoImage THEN parts[Len(parts)].inlineData
  ELSE LastInlineData(SubSeq(parts, 1, Len(parts) - 1))

\* the first part that carries inline data; NoImage when there is none
RECURSIVE FirstInlineData(_)
FirstInlineData(parts) ==
  IF parts = <<>> THEN NoImage
  ELSE IF Head(parts).inlineData # NoImage THEN Head(parts).inlineData
  ELSE FirstInlineData(Tail(parts))

\* error instanceof Error ? error.message : fallback
ErrorContent(thrown, fallback) ==
  IF thrown = NotAnError THEN fallback ELSE thrown

(***************************************************************************)
(* Variants A and B: a state update of the App followed by the history     *)
(* sync effect and the save effect.                                        *)
(***************************************************************************)
Render(user, msgs, chatId, prevHistory, st) ==
  /\ currentUser' = user
  /\ messages' = msgs
  /\ currentChatId' = chatId
  /\ LET h == SyncHistory(prevHistory, chatId, msgs)
         s == IF variant = "B" THEN SaveEffectNoUser(st, h) ELSE SaveEffect(st, user, h)
     IN /\ chatHistory' = h
        /\ storage' = s.storage
        /\ writeFailed' = (writeFailed \/ s.failed)
        /\ crashed' = (crashed \/ (variant = "B" /\ s.failed))
  /\ saveLog' = NoSave

\* a handler that returns without changing the App's state
Rejected ==
  /\ lastOp' = "reject"
  /\ alerted' = FALSE
  /\ saveLog' = NoSave
  /\ UNCHANGED <<signIns, variant, apiKey, currentUser, messages, chat, isLoading,
                 currentChatId, chatHistory, storage, turns, clock, nextUuid,
                 crashed, writeFailed>>

\* variant A: handleImageGeneration(prompt)
handleImageGeneration(prompt) ==
  IF prompt = <<>> \/ isLoading
  THEN Rejected
  ELSE
    LET fresh == IF currentChatId = NoChat THEN 1 ELSE 0
        chatId == IF currentChatId = NoChat THEN nextUuid ELSE currentChatId
        userMsgId == nextUuid + fresh
        modelMsgId == nextUuid + fresh + 1
        tn == Len(turns) + 1
        userMessageEntry == Message(userMsgId, "user", ImagineCommand \o prompt, NoImage, tn)
        \* without an API key the handler throws before its first await
        modelMessageEntry ==
          Message(modelMsgId, "model",
                  IF apiKey THEN <<>> ELSE ErrorPrefix \o ApiKeyNotConfigured, NoImage, tn)
    IN /\ Render(currentUser, messages \o <<userMessageEntry, modelMessageEntry>>,
                 chatId, chatHistory, storage)
       /\ isLoading' = apiKey
       /\ turns' = Append(turns, NewTurn("image", currentUser, chatId, modelMsgId, prompt,
                                         NoImage, IF apiKey THEN "inflight" ELSE "errored"))
       /\ nextUuid' = nextUuid + fresh + 2
       /\ lastOp' = "start"
       /\ alerted' = FALSE
       /\ UNCHANGED <<signIns, variant, apiKey, chat, clock>>

\* variants A and B: handleSendMessage(userMessage, image)
handleSendMessage(userMessage, image) ==
  IF variant = "A" /\ StartsWith(ToLowerCase(Trim(userMessage)), ImagineCommand)
  THEN handleImageGeneration(Trim(Substring(userMessage, ImagineCut)))
  ELSE IF ~chat \/ isLoading
  THEN Rejected
  ELSE
    LET fresh == IF currentChatId = NoChat THEN 1 ELSE 0
        chatId == IF currentChatId = NoChat THEN nextUuid ELSE currentChatId
        effectiveMessage ==
          IF userMessage # <<>> THEN userMessage
          ELSE IF image # NoImage THEN DescribeThisImage ELSE <<>>
        userMsgId == nextUuid + fresh
        modelMsgId == nextUuid + fresh + 1
        tn == Len(turns) + 1
        userMessageEntry == Message(userMsgId, "user", effectiveMessage, image, tn)
        modelMessageEntry == Message(modelMsgId, "model", <<>>, NoImage, tn)
    IN
    IF Trim(effectiveMessage) = <<>> /\ image = NoImage
    THEN \* returns after setCurrentChatId(chatId)
         /\ Render(currentUser, messages, chatId, chatHistory, storage)
         /\ nextUuid' = nextUuid + fresh
         /\ lastOp' = "reject"
         /\ alerted' = FALSE
         /\ UNCHANGED <<signIns, variant, apiKey, chat, isLoading, turns, clock>>
    ELSE /\ Render(currentUser, messages \o <<userMessageEntry, modelMessageEntry>>,
                   chatId, chatHistory, storage)
         /\ isLoading' = TRUE
         /\ turns' = Append(turns, NewTurn("chat", currentUser, chatId, modelMsgId,
                                           effectiveMessage, image, "inflight"))
         /\ nextUuid' = nextUuid + fresh + 2
         /\ lastOp' = "start"
         /\ alerted' = FALSE
         /\ UNCHANGED <<signIns, variant, apiKey, chat, clock>>

\* the App is on screen and reacts to input
Interactive ==
  /\ ~crashed
  /\ variant # "B" => currentUser # None

\* variants A and B: ChatInput.handleSubmit (submit button, Enter, microphone stop)
ChatInputSubmit(value, image) ==
  /\ variant \in {"A", "B"}
  /\ Interactive
  /\ Len(turns) < MaxTurns
  /\ IF (Trim(value) # <<>> \/ image # NoImage) /\ ~isLoading
     THEN handleSendMessage(value, image)
     ELSE Rejected

\* variants A and B: one chunk of the stream of a chat turn arrives
StreamChunk(t) ==
  /\ variant \in {"A", "B"}
  /\ ~crashed
  /\ t \in InFlight
  /\ turns[t].call = "sendMessageStream"
  /\ turns[t].nchunks < MaxChunks
  /\ LET text == turns[t].text \o ChunkAt(turns[t].nchunks + 1) IN
     /\ turns' = [turns EXCEPT ![t].text = text, ![t].nchunks = @ + 1]
     /\ Render(currentUser, ReplaceContent(messages, turns[t].modelMsgId, text),
               currentChatId, chatHistory, storage)
  /\ lastOp' = "other"
  /\ alerted' = FALSE
  /\ UNCHANGED <<signIns, variant, apiKey, chat, isLoading, clock, nextUuid>>

\* variants A and B: the stream of a chat turn ends
StreamEnd(t) ==
  /\ variant \in {"A", "B"}
  /\ ~crashed
  /\ t \in InFlight
  /\ turns[t].call = "sendMessageStream"
  /\ turns' = [turns EXCEPT ![t].status = "settled"]
  /\ isLoading' = FALSE
  /\ lastOp' = "other"
  /\ alerted' = FALSE
  /\ saveLog' = NoSave
  /\ UNCHANGED <<signIns, variant, apiKey, currentUser, messages, chat, currentChatId,
                 chatHistory, storage, clock, nextUuid, crashed, writeFailed>>

\* variant A: the single-shot image call returns
ImageResponse(t, parts) ==
  /\ variant = "A"
  /\ ~crashed
  /\ t \in InFlight
  /\ turns[t].kind = "image"
  /\ LET data == FirstInlineData(parts) IN
     IF data # NoImage
     THEN /\ Render(currentUser, ReplaceImage(messages, turns[t].modelMsgId, data),
                    currentChatId, chatHistory, storage)
          /\ turns' = [turns EXCEPT ![t].status = "settled"]
          /\ lastOp' = "other"
     ELSE /\ Render(currentUser,
                    ReplaceContent(messages, turns[t].modelMsgId,
                                   ErrorPrefix \o NoImageDataReceived),
                    currentChatId, chatHistory, storage)
          /\ turns' = [turns EXCEPT ![t].status = "errored"]
          /\ lastOp' = "other"
  /\ isLoading' = FALSE
  /\ alerted' = FALSE
  /\ UNCHANGED <<signIns, variant, apiKey, chat, clock, nextUuid>>

\* a catch block that shows the error and calls the gateway again
GatewayThrowsRetry(t, thrown) ==
  /\ variant \in {"A", "B"}
  /\ ~crashed
  /\ t \in InFlight
  /\ LET errorContent ==
           ErrorContent(thrown, IF turns[t].kind = "image"
                                THEN UnknownImageError ELSE UnknownError)
     IN Render(currentUser,
               ReplaceContent(messages, turns[t].modelMsgId, ErrorPrefix \o errorContent),
               currentChatId, chatHistory, storage)
  /\ turns' = [turns EXCEPT ![t].text = <<>>, ![t].nchunks = 0]
  /\ lastOp' = "other"
  /\ alerted' = FALSE
  /\ UNCHANGED <<signIns, variant, apiKey, chat, isLoading, clock, nextUuid>>

\* variants A and B: the gateway call, or the stream, throws
GatewayThrows(t, thrown) ==
  /\ variant \in {"A", "B"}
  /\ ~crashed
  /\ t \in InFlight
  /\ LET errorContent ==
           ErrorContent(thrown, IF turns[t].kind = "image"
                                THEN UnknownImageError ELSE UnknownError)
     IN Render(currentUser,
               ReplaceContent(messages, turns[t].modelMsgId, ErrorPrefix \o errorContent),
               currentChatId, chatHistory, storage)
  /\ turns' = [turns EXCEPT ![t].status = "errored"]
  /\ isLoading' = FALSE
  /\ lastOp' = "other"
  /\ alerted' = FALSE
  /\ UNCHANGED <<signIns, variant, apiKey, chat, clock, nextUuid>>

(***************************************************************************)
(* Variant C: the handlers of src/unnamed/part_001.                        *)
(***************************************************************************)
\* String.prototype.replace(/pattern/g, '')
RECURSIVE RemoveAll(_, _)
RemoveAll(s, pattern) ==
  IF Len(s) < Len(pattern) THEN s
  ELSE IF StartsWith(s, pattern) THEN RemoveAll(Substring(s, Len(pattern)), pattern)
  ELSE <<Head(s)>> \o RemoveAll(Tail(s), pattern)

\* result.text.replace(/```html/g, '').replace(/```/g, '').trim()
StripFences(text) ==
  Trim(RemoveAll(RemoveAll(text, FenceHtml), Fence))

\* the content of the user message of a turn
UserContent(kind, prompt, image) ==
  CASE kind = "chat" -> prompt
    [] kind = "image" ->
         (IF image # NoImage THEN EditImagePrefix ELSE GenerateImagePrefix) \o prompt
    [] kind = "3d" ->
         (IF image # NoImage THEN Convert3DPrefix ELSE Generate3DPrefix) \o prompt
    [] kind = "app" -> CreateAppPrefix \o prompt

\* the content of the model message of a turn that succeeded
ModelContent(kind, prompt, image, text) ==
  CASE kind = "chat" -> text
    [] kind = "image" ->
         (IF image # NoImage THEN HereEditedImagePrefix ELSE HereImagePrefix)
           \o prompt \o Quote
    [] kind = "3d" -> Here3DPrefix \o prompt \o Here3DMiddle \o StripFences(text) \o FenceEnd
    [] kind = "app" -> HereAppPrefix \o prompt \o HereAppMiddle \o StripFences(text) \o FenceEnd

\* the content of the model message of a turn that failed
FallbackContent(kind) ==
  CASE kind = "chat" -> SorryFallback
    [] kind = "image" -> ImageFallback
    [] kind = "3d" -> SorryFallback
    [] kind = "app" -> AppFallback

\* the id of the model message of a turn that failed: Date.now() + 1 in
\* handleSendMessage and handle3DGeneration, Date.now() in the other two
FallbackId(kind, now) ==
  IF kind \in {"chat", "3d"} THEN now + 1 ELSE now

\* setIsLoading(true) and the first setMessages of the four submit handlers:
\* the user message is appended and saved
StartTurnC(now, kind, prompt, image) ==
  LET chatId == IF currentChatId = NoChat THEN now ELSE currentChatId
      tn == Len(turns) + 1
      userMessage == Message(now, "user", UserContent(kind, prompt, image), image, tn)
      newMessages == Append(messages, userMessage)
      s == saveChatHistory(storage, chatHistory, currentUser, chatId, newMessages)
  IN \* bounded clock: a value is left for each pending call, this one included
     /\ now + Cardinality(InFlight) < FirstNow + MaxClock
     /\ currentChatId' = chatId
     /\ isLoading' = TRUE
     /\ messages' = newMessages
     /\ chatHistory' = s.history
     /\ storage' = s.storage
     /\ saveLog' = s.log
     /\ writeFailed' = (writeFailed \/ s.log.failures > 0)
     /\ turns' = Append(turns, NewTurn(kind, currentUser, chatId, NoChat, prompt, image,
                                       "inflight"))
     /\ clock' = now
     /\ lastOp' = "start"
     /\ alerted' = FALSE
     /\ UNCHANGED <<signIns, variant, apiKey, currentUser, chat, nextUuid, crashed>>

\* variant C: handleSendMessage(text, image)
handleSendMessageC(now, text, image) ==
  IF ~chat THEN Rejected ELSE StartTurnC(now, "chat", text, image)

\* variant C: handleImageGeneration(prompt, inputImage)
handleImageGenerationC(now, prompt, inputImage) ==
  StartTurnC(now, "image", prompt, inputImage)

\* variant C: handle3DGeneration(prompt, inputImage)
handle3DGeneration(now, prompt, inputImage) ==
  StartTurnC(now, "3d", prompt, inputImage)

\* variant C: handleAppGeneration(prompt)
handleAppGeneration(now, prompt) ==
  StartTurnC(now, "app", prompt, NoImage)

Modes ==
  {"chat", "image", "3d", "app"}

\* Date.now(): the values a read can return given the last value read; two
\* handlers never run in the same millisecond.  The clock is bounded, and a
\* read leaves a value for the read each other pending call makes on return.
Now ==
  {n \in (clock + 1)..(clock + 2) :
     /\ n <= FirstNow + MaxClock
     /\ n + Cardinality(InFlight) <= FirstNow + MaxClock + 1}

\* variant C: ChatInput.handleSubmit (submit button, Enter, microphone stop)
ChatInputSubmitC(now, value, image, mode) ==
  /\ variant = "C"
  /\ Interactive
  /\ Len(turns) < MaxTurns
  \* no attachment in app mode: handleModeChange clears it, the button is disabled
  /\ mode = "app" => image = NoImage
  /\ LET trimmedValue == Trim(value) IN
     IF isLoading THEN Rejected
     ELSE IF trimmedValue = <<>> /\ image = NoImage /\ mode = "chat" THEN Rejected
     ELSE IF trimmedValue = <<>> /\ image = NoImage /\ mode = "3d" THEN Rejected
     ELSE IF trimmedValue = <<>> /\ mode = "app" THEN Rejected
     ELSE IF mode = "image" THEN handleImageGenerationC(now, trimmedValue, image)
     ELSE IF mode = "3d" THEN handle3DGeneration(now, trimmedValue, image)
     ELSE IF mode = "app" THEN handleAppGeneration(now, trimmedValue)
     ELSE handleSendMessageC(now, value, image)

\* variant C: a shortcut button of the welcome screen, shown while the
\* displayed list is empty
WelcomeButton(now, mode) ==
  /\ variant = "C"
  /\ Interactive
  /\ Len(turns) < MaxTurns
  /\ Len(messages) = 0
  /\ CASE mode = "chat" -> handleSendMessageC(now, WelcomeChatPrompt, NoImage)
       [] mode = "image" -> handleImageGenerationC(now, WelcomeImagePrompt, NoImage)
       [] mode = "3d" -> handle3DGeneration(now, Welcome3DPrompt, NoImage)
       [] mode = "app" -> handleAppGeneration(now, WelcomeAppPrompt)

\* variant C: the model message is appended and the list saved under the
\* chat id and the user of the handler's closure
AppendAndSave(t, botMessage) ==
  LET newMessages == Append(messages, botMessage)
      s == saveChatHistory(storage, chatHistory, turns[t].user, turns[t].chatId, newMessages)
  IN /\ messages' = newMessages
     /\ chatHistory' = s.history
     /\ storage' = s.storage
     /\ saveLog' = s.log
     /\ writeFailed' = (writeFailed \/ s.log.failures > 0)

\* variant C: the fallback message is appended; nothing is saved
AppendFallback(now, t) ==
  /\ messages' = Append(messages, Message(FallbackId(turns[t].kind, now), "model",
                                          FallbackContent(turns[t].kind), NoImage, t))
  /\ saveLog' = NoSave
  /\ UNCHANGED <<chatHistory, storage, writeFailed>>

\* variant C: a single-shot text call (chat, 3d, app) returns
TextResponse(now, t, text) ==
  /\ variant = "C"
  /\ apiKey
  /\ t \in InFlight
  /\ turns[t].kind # "image"
  /\ AppendAndSave(t, Message(now + 1, "model",
                              ModelContent(turns[t].kind, turns[t].prompt,
                                           turns[t].image, text),
                              NoImage, t))
  /\ turns' = [turns EXCEPT ![t].status = "settled"]
  /\ isLoading' = FALSE
  /\ lastOp' = "other"
  /\ alerted' = FALSE
  /\ clock' = now
  /\ UNCHANGED <<signIns, variant, apiKey, currentUser, chat, currentChatId, nextUuid, crashed>>

\* variant C: the single-shot image call returns
ImageResponseC(now, t, parts) ==
  /\ variant = "C"
  /\ apiKey
  /\ t \in InFlight
  /\ turns[t].kind = "image"
  /\ LET imageUrl == FirstInlineData(parts) IN
     IF imageUrl # NoImage
     THEN /\ AppendAndSave(t, Message(now + 1, "model",
                                      ModelContent("image", turns[t].prompt,
                                                   turns[t].image, <<>>),
                                      imageUrl, t))
          /\ turns' = [turns EXCEPT ![t].status = "settled"]
     ELSE /\ AppendFallback(now, t)
          /\ turns' = [turns EXCEPT ![t].status = "errored"]
  /\ isLoading' = FALSE
  /\ lastOp' = "other"
  /\ alerted' = FALSE
  /\ clock' = now
  /\ UNCHANGED <<signIns, variant, apiKey, currentUser, chat, currentChatId, nextUuid, crashed>>

\* variant C: the gateway call throws
GatewayThrowsC(now, t) ==
  /\ variant = "C"
  /\ t \in InFlight
  /\ AppendFallback(now, t)
  /\ turns' = [turns EXCEPT ![t].status = "errored"]
  /\ isLoading' = FALSE
  /\ lastOp' = "other"
  /\ alerted' = FALSE
  /\ clock' = now
  /\ UNCHANGED <<signIns, variant, apiKey, currentUser, chat, currentChatId, nextUuid, crashed>>

(***************************************************************************)
(* Handlers of all variants: New Chat, Load Chat, sign-in, sign-out.       *)
(***************************************************************************)
\* handleNewChat
handleNewChat ==
  /\ Interactive
  /\ IF variant = "C"
     THEN /\ messages' = <<>>
          /\ currentChatId' = NoChat
          /\ saveLog' = NoSave
          /\ UNCHANGED <<currentUser, chatHistory, storage, crashed, writeFailed>>
     ELSE Render(currentUser, <<>>, NoChat, chatHistory, storage)
  \* initializeChat
  /\ chat' = (chat \/ apiKey)
  /\ alerted' = (~apiKey /\ variant # "C")
  /\ turns' = MarkSwitched(turns)
  /\ lastOp' = "other"
  /\ UNCHANGED <<signIns, variant, apiKey, isLoading, clock, nextUuid>>

\* handleLoadChat(id); the sidebar calls it with the id of a listed session
handleLoadChat(id) ==
  /\ Interactive
  /\ IF id \in Ids(chatHistory)
     THEN /\ LET chatToLoad == chatHistory[FindIndex(chatHistory, id)] IN
             IF variant = "C"
             THEN /\ messages' = chatToLoad.messages
                  /\ currentChatId' = id
                  /\ saveLog' = NoSave
                  /\ UNCHANGED <<currentUser, chatHistory, storage, crashed, writeFailed>>
             ELSE Render(currentUser, chatToLoad.messages, chatToLoad.id, chatHistory, storage)
          /\ chat' = (chat \/ apiKey)
          /\ alerted' = (~apiKey /\ variant # "C")
          /\ turns' = MarkSwitched(turns)
          /\ lastOp' = "other"
          /\ UNCHANGED <<signIns, variant, apiKey, isLoading, clock, nextUuid>>
     \* `if (chatToLoad)` fails: no state is set
     ELSE Rejected

\* handleSignIn(username) and the user-change effect
handleSignIn(username) ==
  /\ variant # "B"
  /\ ~crashed
  /\ currentUser = None
  /\ signIns < MaxSignIns
  /\ signIns' = signIns + 1
  /\ LET r == UserChange(variant, SetItem(storage, UserKey, UserName(username)),
                         username, chatHistory)
     IN /\ chatHistory' = r.history
        /\ storage' = r.storage
        /\ writeFailed' = (writeFailed \/ r.failed)
  /\ currentUser' = username
  /\ messages' = <<>>
  /\ currentChatId' = NoChat
  /\ chat' = (chat \/ apiKey)
  /\ alerted' = (~apiKey /\ variant = "A")
  /\ turns' = MarkSwitched(turns)
  /\ saveLog' = NoSave
  /\ lastOp' = "other"
  /\ UNCHANGED <<variant, apiKey, isLoading, clock, nextUuid, crashed>>

\* handleSignOut; in variant A the user-change effect clears the view
handleSignOut ==
  /\ variant # "B"
  /\ Interactive
  /\ storage' = RemoveItem(storage, UserKey)
  /\ currentUser' = None
  /\ messages' = <<>>
  /\ chatHistory' = <<>>
  /\ currentChatId' = IF variant = "A" THEN NoChat ELSE currentChatId
  /\ turns' = MarkSwitched(turns)
  /\ saveLog' = NoSave
  /\ alerted' = FALSE
  /\ lastOp' = "other"
  /\ UNCHANGED <<signIns, variant, apiKey, chat, isLoading, clock, nextUuid, crashed, writeFailed>>

Next ==
  \/ \E in \in Inputs : ChatInputSubmit(in.value, in.image)
  \/ \E t \in DOMAIN turns : StreamChunk(t)
  \/ \E t \in DOMAIN turns : StreamEnd(t)
  \/ \E t \in DOMAIN turns, parts \in PartLists : ImageResponse(t, parts)
  \/ \E t \in DOMAIN turns, thrown \in Thrown : GatewayThrows(t, thrown)
  \/ \E now \in Now, in \in InputsC : ChatInputSubmitC(now, in.value, in.image, in.mode)
  \/ \E now \in Now, mode \in Modes : WelcomeButton(now, mode)
  \/ \E now \in Now, t \in DOMAIN turns, text \in ResultTexts : TextResponse(now, t, text)
  \/ \E now \in Now, t \in DOMAIN turns, parts \in PartLists : ImageResponseC(now, t, parts)
  \/ \E now \in Now, t \in DOMAIN turns : GatewayThrowsC(now, t)
  \/ handleNewChat
  \/ \E id \in Ids(chatHistory) : handleLoadChat(id)
  \/ \E username \in Users : handleSignIn(username)
  \/ handleSignOut

Spec ==
  Init /\ [][Next]_vars

(***************************************************************************)
(* Vocabulary of the properties.                                           *)
(***************************************************************************)
HasSession(hist, id) ==
  id \in Ids(hist)

\* the message list of session id of a collection that has it
SessionMessages(hist, id) ==
  hist[FindIndex(hist, id)].messages

\* the positions of the model-role messages that turn t created
ModelMessagesOf(msgs, t) ==
  {k \in DOMAIN msgs : msgs[k].role = "model" /\ msgs[k].turn = t}

\* content that reports a failed turn
IsErrorContent(kind, content) ==
  StartsWith(content, ErrorPrefix) \/ content = FallbackContent(kind)

\* the user that was signed in when a message was created
Owner(m) ==
  IF m.turn = 0 THEN SampleUser ELSE turns[m.turn].user

\* this step ends turn t in error
TurnErrors(t) ==
  /\ turns'[t].status = "errored"
  /\ t \in DOMAIN turns => turns[t].status = "inflight"

\* this step ends turn t successfully
TurnSettles(t) ==
  /\ t \in DOMAIN turns
  /\ turns[t].status = "inflight"
  /\ turns'[t].status = "settled"

\* C1: at most one turn is in flight at any time: a submission made while a
\* turn is in flight is rejected, through every entry point, also after
\* New Chat or Load Chat
C1_AtMostOneInFlight ==
  Cardinality(InFlight) <= 1

\* new continues old: the messages of old are still there, in place and
\* unchanged, except that the content (or image) of the last one may differ
\* when it is the model message of a turn that was still in flight
Continues(old, new) ==
  /\ Len(old) <= Len(new)
  /\ \A k \in DOMAIN old :
       \/ new[k] = old[k]
       \/ /\ k = Len(old)
          /\ old[k].role = "model"
          /\ old[k].turn \in InFlight
          /\ new[k] = [old[k] EXCEPT !.content = new[k].content,
                                     !.image = new[k].image]

\* C2: while the same user stays signed in, the stored message list of each
\* session only grows by appending; only the latest model message may change,
\* and only while its own turn is in flight
C2_AppendOnly ==
  [][currentUser' = currentUser =>
       \A id \in Ids(chatHistory) \cap Ids(chatHistory') :
          Continues(SessionMessages(chatHistory, id), SessionMessages(chatHistory', id))]_vars

\* every message of every session of hist was created while u was signed in
OnlyOf(hist, u) ==
  \A i \in DOMAIN hist : \A k \in DOMAIN hist[i].messages :
     Owner(hist[i].messages[k]) = u

\* C3: the collection shown while u is signed in, and the collection stored
\* under chatHistory_<u>, hold only messages created while u was signed in
C3_UserCollectionsDisjoint ==
  /\ currentUser # None => OnlyOf(chatHistory, currentUser)
  /\ \A u \in Users :
       Parses(storage[HistoryKey(u)]) => OnlyOf(Parse(storage[HistoryKey(u)]), u)

\* msgs holds exactly one model message of turn t, and it reports the failure
ExactlyOneError(msgs, t) ==
  /\ Cardinality(ModelMessagesOf(msgs, t)) = 1
  /\ \A k \in ModelMessagesOf(msgs, t) : IsErrorContent(turns'[t].kind, msgs[k].content)

\* C4: a turn whose gateway call throws ends with exactly one model message
\* of that turn (in the displayed list, or in the record of its session),
\* whose content starts with "Error: " or is the fallback string of the
\* mode, and with the loading flag false
C4_ErrorEndsTurn ==
  [][\A t \in DOMAIN turns' :
       TurnErrors(t) =>
         /\ ~isLoading'
         /\ \/ ExactlyOneError(messages', t)
            \/ /\ HasSession(chatHistory', turns'[t].chatId)
               /\ ExactlyOneError(SessionMessages(chatHistory', turns'[t].chatId), t)]_vars

\* the list ends with the model message of turn t reporting the failure
EndsWithError(msgs, t) ==
  /\ Len(msgs) > 0
  /\ msgs[Len(msgs)].role = "model"
  /\ msgs[Len(msgs)].turn = t
  /\ IsErrorContent(turns'[t].kind, msgs[Len(msgs)].content)

\* the key under which the collection of user u is stored
CollectionKey(u) ==
  IF variant = "B" THEN NoUserHistoryKey ELSE HistoryKey(u)

\* C5: when a turn ends in error, the record of its session in the
\* collection ends with the model message that carries the error text, and
\* so does the stored copy (unless a storage write has failed)
C5_ErrorIsUpserted ==
  [][\A t \in DOMAIN turns' :
       TurnErrors(t) =>
         LET id == turns'[t].chatId
             stored == storage'[CollectionKey(turns'[t].user)]
         IN /\ HasSession(chatHistory', id)
            /\ EndsWithError(SessionMessages(chatHistory', id), t)
            /\ ~writeFailed' =>
                 /\ Parses(stored)
                 /\ HasSession(Parse(stored), id)
                 /\ EndsWithError(SessionMessages(Parse(stored), id), t)]_vars

\* the concatenation of the first k chunks of a stream
RECURSIVE ChunksUpTo(_)
ChunksUpTo(k) ==
  IF k = 0 THEN <<>> ELSE ChunksUpTo(k - 1) \o ChunkAt(k)

\* m carries what the gateway returned for turn t
Committed(t, m) ==
  IF variant = "C"
  THEN /\ \E text \in ResultTexts :
            m.content = ModelContent(turns[t].kind, turns[t].prompt, turns[t].image, text)
       /\ turns[t].kind = "image" => m.image # NoImage
  ELSE IF turns[t].kind = "image"
       THEN m.image # NoImage /\ m.content = <<>>
       ELSE m.content = ChunksUpTo(turns[t].nchunks)

\* C6: when a turn during which the view was not switched completes
\* successfully, the displayed list ends with the model message of the turn
\* carrying the final content or image, the record of the turn's session in
\* the collection holds exactly the displayed list, and the loading flag is
\* false
C6_SuccessIsCommitted ==
  [][\A t \in DOMAIN turns :
       (TurnSettles(t) /\ ~turns[t].switched) =>
          /\ ~isLoading'
          /\ Len(messages') > 0
          /\ messages'[Len(messages')].role = "model"
          /\ messages'[Len(messages')].turn = t
          /\ Committed(t, messages'[Len(messages')])
          /\ HasSession(chatHistory', turns[t].chatId)
          /\ SessionMessages(chatHistory', turns[t].chatId) = messages']_vars

\* this step applies a chunk of the stream of turn t, or ends the stream
StreamStep(t) ==
  /\ variant # "C"
  /\ turns[t].kind = "chat"
  /\ turns[t].status = "inflight"
  /\ \/ turns'[t].nchunks = turns[t].nchunks + 1
     \/ turns'[t].status = "settled"

\* C7: after the k-th chunk of a streamed turn the content of its
\* placeholder, wherever the placeholder is held (displayed list, session
\* collection), is the concatenation of the first k chunks, at the end of
\* the stream it is the concatenation of all chunks, and no other displayed
\* message changes
C7_ChunksInOrder ==
  [][\A t \in DOMAIN turns :
       StreamStep(t) =>
         LET id == turns[t].modelMsgId
             want == ChunksUpTo(turns'[t].nchunks)
         IN /\ \A k \in DOMAIN messages' :
                 messages'[k].id = id => messages'[k].content = want
            /\ \A i \in DOMAIN chatHistory' : \A k \in DOMAIN chatHistory'[i].messages :
                 chatHistory'[i].messages[k].id = id
                   => chatHistory'[i].messages[k].content = want
            /\ Len(messages') = Len(messages)
            /\ \A k \in DOMAIN messages :
                 messages[k].id # id => messages'[k] = messages[k]]_vars

\* JSON text decoded as the load does: no entry is the empty collection
Decoded(v) ==
  IF Parses(v) THEN Parse(v) ELSE <<>>

\* C8: whenever a user is signed in, no turn is in flight and no storage
\* write has failed, the entry chatHistory_<user> (unless it holds text that
\* is not JSON, which the App did not write) decodes to exactly the
\* collection in memory
C8_PersistedOnChange ==
  (/\ currentUser # None
   /\ InFlight = {}
   /\ ~writeFailed
   /\ storage[HistoryKey(currentUser)].kind # "corrupt")
    => Decoded(storage[HistoryKey(currentUser)]) = chatHistory

\* this step is a saveChatHistory call whose first setItem throws
Overflow ==
  /\ saveLog'.called
  /\ ~Fits(storage, saveLog'.key, Stringify(saveLog'.before))

\* the upsert evicted the first session of the collection and retried once
EvictedOldest ==
  LET rest == Tail(saveLog'.before) IN
  /\ chatHistory' = rest
  /\ saveLog'.evicted = <<saveLog'.before[1].id>>
  /\ saveLog'.attempts = 2
  /\ storage' = IF Fits(storage, saveLog'.key, Stringify(rest))
                THEN SetItem(storage, saveLog'.key, Stringify(rest))
                ELSE storage

\* C9 as claimed: when the write of an upsert fails for lack of capacity,
\* exactly one session, the oldest, is evicted, the write is retried exactly
\* once, and the remaining collection is persisted if it fits
C9_EvictOldestRetryOnce ==
  [][Overflow => EvictedOldest]_vars

\* C9 as amended: that eviction and retry happen when the collection has more
\* than one session after the upsert; with a single session nothing is
\* evicted, nothing is retried and storage keeps what it had
C9_EvictOldestWhenSeveral ==
  [][Overflow =>
       IF Len(saveLog'.before) > 1
       THEN EvictedOldest
       ELSE /\ chatHistory' = saveLog'.before
            /\ saveLog'.evicted = <<>>
            /\ saveLog'.attempts = 1
            /\ storage' = storage]_vars

\* an upsert into a collection of several sessions overflowed, the oldest
\* session was evicted and the rest was persisted by the retry
C9_Witness ==
  /\ saveLog.called
  /\ Len(saveLog.before) > 1
  /\ saveLog.failures = 1
  /\ saveLog.attempts = 2
  /\ chatHistory = Tail(saveLog.before)
  /\ storage[saveLog.key] = Stringify(chatHistory)

\* C10: after saveChatHistory(chatId, updatedMessages), whatever the outcome
\* of the write, the collection in memory has a session chatId that holds
\* exactly updatedMessages
C10_UpsertKeepsSession ==
  saveLog.called =>
    /\ HasSession(chatHistory, saveLog.id)
    /\ SessionMessages(chatHistory, saveLog.id)
         = SessionMessages(saveLog.before, saveLog.id)

\* the collection the upsert of (id, title, msgs) into prev is claimed to give
UpsertOf(prev, id, title, msgs) ==
  IF HasSession(prev, id)
  THEN [i \in DOMAIN prev |->
          IF prev[i].id = id THEN ChatHistoryItem(id, title, msgs) ELSE prev[i]]
  ELSE Append(prev, ChatHistoryItem(id, title, msgs))

ClaimedTitle(msgs) ==
  LET i == FirstUserIndex(msgs) IN
  IF i = 0 THEN NewChatTitle
  ELSE IF msgs[i].content = <<>> THEN NewChatTitle
  ELSE IF Len(msgs[i].content) > TitleLimit
       THEN Slice(msgs[i].content, TitleLimit) \o Ellipsis
       ELSE msgs[i].content

\* session i of the collection after the step was written by the step
Written(i) ==
  \A j \in DOMAIN chatHistory : chatHistory[j] # chatHistory'[i]

\* C12: every title derived for a session is the function of the first user
\* message of its list: the content when it has at most 30 characters, its
\* first 30 characters followed by "..." when it has more, and "New Chat"
\* when the list has no user message or that message has no content.
C12_TitleOfFirstUserMessage ==
  [][currentUser' = currentUser =>
       \A i \in DOMAIN chatHistory' :
         Written(i) => chatHistory'[i].title = ClaimedTitle(chatHistory'[i].messages)]_vars

\* C13: every session of the collection carries the title derived from the
\* first user message of its current list.
C13_TitlesAreCurrent ==
  \A i \in DOMAIN chatHistory :
    chatHistory[i].title = ClaimedTitle(chatHistory[i].messages)

\* C14: in the variant that has the /imagine command, a submitted text whose
\* trimmed, lower-cased form starts with "/imagine " starts an image turn, and
\* the prompt of the turn is the text after the command word, trimmed.
C14_ImagineRouting ==
  [][\A in \in Inputs :
       (/\ variant = "A"
        /\ ~isLoading
        /\ StartsWith(ToLowerCase(Trim(in.value)), ImagineCommand)
        /\ ChatInputSubmit(in.value, in.image))
       => /\ Len(turns') = Len(turns) + 1
          /\ turns'[Len(turns')].kind = "image"
          /\ turns'[Len(turns')].prompt = Trim(Substring(Trim(in.value), ImagineCut))]_vars

\* the step starts a turn whose gateway call is made
StartsCall ==
  /\ Len(turns') = Len(turns) + 1
  /\ turns'[Len(turns')].status = "inflight"

\* C15: when a turn starts, in every mode, the displayed list is extended by
\* the user message of the turn followed by a model message with empty
\* content, and that is how the list ends when the gateway is called.
C15_PlaceholderBeforeCall ==
  [][StartsCall =>
       LET n == Len(messages')
           t == Len(turns')
       IN /\ n = Len(messages) + 2
          /\ SubSeq(messages', 1, n - 2) = messages
          /\ messages'[n - 1].role = "user"
          /\ messages'[n - 1].turn = t
          /\ messages'[n].role = "model"
          /\ messages'[n].turn = t
          /\ messages'[n].content = <<>>]_vars

\* C16: a turn is started only by a submission that has text other than
\* whitespace, an attached image, or both, in every mode and by every path.
C16_TurnNeedsContent ==
  \A t \in DOMAIN turns :
    Trim(turns[t].prompt) # <<>> \/ turns[t].image # NoImage

\* C17: without the API credential no turn starts: no message is appended, no
\* session is created and the loading flag stays false.
C17_NoCredentialNoTurn ==
  ~apiKey =>
    /\ turns = <<>>
    /\ messages = <<>>
    /\ chatHistory = <<>>
    /\ ~isLoading

\* no two messages of the list share an id
DistinctIds(msgs) ==
  \A i, j \in DOMAIN msgs : i # j => msgs[i].id # msgs[j].id

\* C18: no two messages of the displayed list share an id, and no two
\* messages of a stored session do, with UUID ids and with clock ids alike.
C18_MessageIdsUnique ==
  /\ DistinctIds(messages)
  /\ \A k \in DOMAIN chatHistory : DistinctIds(chatHistory[k].messages)

\* the gateway call of turn t returns or throws, or its stream ends
GatewayEnds(t) ==
  \/ StreamEnd(t)
  \/ \E parts \in PartLists : ImageResponse(t, parts)
  \/ \E thrown \in Thrown : GatewayThrows(t, thrown)
  \/ \E now \in Now, text \in ResultTexts : TextResponse(now, t, text)
  \/ \E now \in Now, parts \in PartLists : ImageResponseC(now, t, parts)
  \/ \E now \in Now : GatewayThrowsC(now, t)

\* C19: a started turn runs to completion or error.  Whatever happened since
\* it started (New Chat, Load Chat, sign-out, a failed write), the return of
\* its gateway call can still be handled, and handling it leaves the turn
\* settled or errored and the loading flag false.
C19_TurnRunsToEnd ==
  \A t \in InFlight :
    ENABLED (/\ GatewayEnds(t)
             /\ turns'[t].status \in {"settled", "errored"}
             /\ ~isLoading')

\* C20: a persisted collection that does not parse is cleared by the load:
\* once the App is mounted, or a user signed in, the key of the collection
\* that was loaded holds no unparseable value, in every variant.
C20_CorruptEntryCleared ==
  /\ variant = "B" => storage[NoUserHistoryKey].kind # "corrupt"
  /\ (variant # "B" /\ currentUser # None) =>
       storage[HistoryKey(currentUser)].kind # "corrupt"

\* C21: no storage failure is fatal.  A localStorage call that throws is
\* handled where it is made: it never propagates out of an effect, so the App
\* stays mounted and keeps accepting input after a failed write.
C21_StorageFailureNotFatal ==
  writeFailed => ~crashed

\* the inline data of the part of least index that carries inline data
ClaimedImage(parts) ==
  LET idx == {i \in DOMAIN parts : parts[i].inlineData # NoImage} IN
  IF idx = {} THEN NoImage
  ELSE parts[CHOOSE i \in idx : \A j \in idx : i <= j].inlineData

\* every model message of turn t in msgs carries one of the images
ModelImagesIn(msgs, t, images) ==
  \A i \in DOMAIN msgs :
    (msgs[i].turn = t /\ msgs[i].role = "model") => msgs[i].image \in images

\* C22: when the call of an image turn returns, the image committed is the
\* inline data of the first part, in part order, that carries inline data,
\* whatever later parts carry; when no part carries inline data the turn
\* ends errored and no image is committed.
C22_FirstInlinePart ==
  [][\A t \in DOMAIN turns, parts \in PartLists :
       (ImageResponse(t, parts) \/ \E now \in Now : ImageResponseC(now, t, parts)) =>
         LET img == ClaimedImage(parts) IN
         /\ turns'[t].status = (IF img = NoImage THEN "errored" ELSE "settled")
         /\ ModelImagesIn(messages', t, {img})
         /\ \A k \in DOMAIN chatHistory' :
              ModelImagesIn(chatHistory'[k].messages, t, {NoImage, img})]_vars

\* an image turn settled on a response whose first inline part is followed
\* by another one, and its image is displayed and stored
C22_Witness ==
  \E t \in DOMAIN turns :
    /\ turns[t].kind = "image"
    /\ turns[t].status = "settled"
    /\ \E i \in DOMAIN messages :
         /\ messages[i].turn = t
         /\ messages[i].image = "gen2"
    /\ \E k \in DOMAIN chatHistory : \E i \in DOMAIN chatHistory[k].messages :
         /\ chatHistory[k].messages[i].turn = t
         /\ chatHistory[k].messages[i].image = "gen2"

\* C23: every plain-chat turn, with or without an attached image, goes to the
\* chat handle as a streamed call, and only the image, 3D and app turns use
\* the stateless single-shot call.
C23_CallShapeByMode ==
  \A t \in DOMAIN turns :
    turns[t].call = (IF turns[t].kind = "chat" THEN "sendMessageStream"
                     ELSE "generateContent")

\* the step handles a failure of the gateway call of turn t
GatewayFails(t) ==
  \/ \E thrown \in Thrown : GatewayThrows(t, thrown)
  \/ \E now \in Now : GatewayThrowsC(now, t)

\* C24: no automatic retry.  A turn makes one gateway call: handling the
\* failure of the call ends the turn and puts no call in flight, a turn that
\* has ended never has a call in flight again, and a call comes in flight
\* only with a new turn that a submission starts.
C24_NoRetry ==
  [][/\ \A t \in DOMAIN turns :
          /\ t \in DOMAIN turns'
          /\ t \notin InFlight => turns'[t].status = turns[t].status
          /\ GatewayFails(t) =>
               /\ turns'[t].status = "errored"
               /\ {u \in DOMAIN turns' : turns'[u].status = "inflight"} = InFlight \ {t}
     /\ \A t \in DOMAIN turns' \ DOMAIN turns :
          /\ t = Len(turns) + 1
          /\ lastOp' = "start"]_vars

\* the gateway call of a turn failed, and the user submitted a later turn
C24_Witness ==
  \E t \in DOMAIN turns :
    /\ turns[t].status = "errored"
    /\ apiKey
    /\ t < Len(turns)
    /\ turns[Len(turns)].status = "inflight"

\* msgs holds a model message of turn t
HoldsOutputOf(msgs, t) ==
  \E i \in DOMAIN msgs : msgs[i].turn = t /\ msgs[i].role = "model"

C26_CurrentIdHasSession ==
  (Interactive /\ InFlight = {} /\ currentChatId # NoChat) =>
     HasSession(chatHistory, currentChatId)

(***************************************************************************)
(* The handler alone: handleSendMessage is passed to ChatInput as the prop  *)
(* onSendMessage; here it is called with any text and attachment, without  *)
(* the test ChatInput.handleSubmit makes before calling it.                 *)
(***************************************************************************)
SendMessageCall(value, image) ==
  /\ Interactive
  /\ Len(turns) < MaxTurns
  \* bounded: a call that is rejected can still draw a fresh session id
  /\ nextUuid < MaxUuid
  /\ IF variant = "C"
     THEN \E now \in Now : handleSendMessageC(now, value, image)
     ELSE handleSendMessage(value, image)

NextHandlers ==
  \/ \E in \in Inputs : SendMessageCall(in.value, in.image)
  \/ \E t \in DOMAIN turns : StreamChunk(t)
  \/ \E t \in DOMAIN turns : StreamEnd(t)
  \/ \E t \in DOMAIN turns, parts \in PartLists : ImageResponse(t, parts)
  \/ \E t \in DOMAIN turns, thrown \in Thrown : GatewayThrows(t, thrown)
  \/ \E now \in Now, t \in DOMAIN turns, text \in ResultTexts : TextResponse(now, t, text)
  \/ \E now \in Now, t \in DOMAIN turns : GatewayThrowsC(now, t)
  \/ handleNewChat

SpecHandlers ==
  Init /\ [][NextHandlers]_vars

\* C27: a rejected submission changes nothing.  When handleSendMessage
\* returns without starting a turn, the displayed messages, the current
\* session id, the session collection and the loading flag are unchanged.
C27_RejectionChangesNothing ==
  [][\A in \in Inputs :
       (SendMessageCall(in.value, in.image) /\ Len(turns') = Len(turns)) =>
          UNCHANGED <<messages, currentChatId, chatHistory, isLoading>>]_vars

\* C28: loading a user's history never destroys it.  When a user whose
\* persisted collection is well formed and not empty signs in, the entry
\* chatHistory_<user> is the same after each effect that runs, and when the
\* effects have run the entry and the collection in memory are what was
\* persisted before.
C28_LoadKeepsHistory ==
  [][\A u \in Users :
       (/\ currentUser = None
        /\ currentUser' = u
        /\ Parses(storage[HistoryKey(u)])
        /\ Parse(storage[HistoryKey(u)]) # <<>>)
       => LET before == storage[HistoryKey(u)]
              r == UserChange(variant, SetItem(storage, UserKey, UserName(u)), u, chatHistory)
          IN /\ \A i \in DOMAIN r.trail : r.trail[i][HistoryKey(u)] = before
             /\ storage'[HistoryKey(u)] = before
             /\ chatHistory' = Parse(before)]_vars

\* the ids handleLoadChat can be called with: those of the collection and an
\* id that was never given to a session
LoadChatIds ==
  Ids(chatHistory) \cup {nextUuid}

\* the App driven through its interface, and handleLoadChat called with any id
\* while no turn is in flight
NextLoadChat ==
  \/ Next
  \/ \E id \in LoadChatIds \ Ids(chatHistory) : InFlight = {} /\ handleLoadChat(id)

SpecLoadChat ==
  Init /\ [][NextLoadChat]_vars

\* C29: with no turn in flight, New Chat and Load Chat only change the view.
\* New Chat empties the displayed messages and sets the current id to none;
\* Load Chat of a session of the collection makes it current and displays its
\* stored messages; both leave the session collection and localStorage as
\* they were.  Load Chat of an id that no session has changes nothing.
C29_ViewChangesOnly ==
  [][InFlight = {} =>
       /\ handleNewChat =>
            /\ messages' = <<>>
            /\ currentChatId' = NoChat
            /\ chatHistory' = chatHistory
            /\ storage' = storage
       /\ \A id \in Ids(chatHistory) :
            handleLoadChat(id) =>
              /\ currentChatId' = id
              /\ messages' = chatHistory[FindIndex(chatHistory, id)].messages
              /\ chatHistory' = chatHistory
              /\ storage' = storage
       /\ \A id \in LoadChatIds \ Ids(chatHistory) :
            handleLoadChat(id) =>
              UNCHANGED <<messages, currentChatId, chatHistory, storage, isLoading,
                          currentUser, chat>>]_vars

\* a turn has ended in one session and the first session of the collection,
\* another one, was loaded afterwards
C29_Witness ==
  /\ InFlight = {}
  /\ lastOp = "other"
  /\ Len(turns) > 0
  /\ Len(chatHistory) >= 2
  /\ currentChatId = chatHistory[1].id
  /\ messages = chatHistory[1].messages
  /\ HasSession(chatHistory, turns[Len(turns)].chatId)
  /\ turns[Len(turns)].chatId # currentChatId

\* no two records of the collection have the same session id
OneRecordPerId(hist) ==
  \A i, j \in DOMAIN hist : hist[i].id = hist[j].id => i = j

\* C30: the session collection holds at most one record per session id, in
\* every reachable state; and a turn submitted while a session is current is
\* a turn of that session, which stays current.
C30_OneRecordPerSession ==
  [][/\ OneRecordPerId(chatHistory)
     /\ OneRecordPerId(chatHistory')
     /\ \A t \in DOMAIN turns' \ DOMAIN turns :
          currentChatId # NoChat =>
            /\ turns'[t].chatId = currentChatId
            /\ currentChatId' = currentChatId]_vars

\* saveChatHistory has served two turns submitted in one session, and both
\* have ended: the one record of that session holds the messages of both
C30_Witness ==
  /\ variant = "C"
  /\ Len(turns) >= 2
  /\ InFlight = {}
  /\ turns[1].chatId = turns[2].chatId
  /\ \E i \in DOMAIN chatHistory :
       /\ chatHistory[i].id = turns[1].chatId
       /\ Len(chatHistory[i].messages) >= 4
====
